---- MODULE Spec2Model ----
(***************************************************************************)
(* RSS Feed Bouncer: the article classifier (src/src/article_filter.py)    *)
(* and the feed processing pipeline (src/src/rss_analyzer.py) with its     *)
(* state store (src/src/state.py) and bookmark client                      *)
(* (src/src/raindrop_client.py).                                           *)
(*                                                                         *)
(* Instants are naturals; 0 stands for Python's None where a date is       *)
(* optional.  Strings that Python leaves out are the value NONE.  The      *)
(* date functions of src/src/utils.py work on records that also carry      *)
(* whether a datetime is timezone-aware.                                   *)
(***************************************************************************)
EXTENDS Integers, Sequences, FiniteSets, TLC

\* ------------------------------------------------------------------ bounds
MaxDate == 2          \* instants 1..MaxDate appear in feeds
MaxEntries == 2       \* entries per fetched feed
MaxRuns == 2          \* invocations of process_feeds
NumFeeds == 2         \* length of config['feeds']
MaxArticles == 12     \* length of the list handed to _batch_articles on its own
MaxBatchSize == 5     \* batch sizes tried with _batch_articles on its own
MaxYears == 3         \* max_age_years tried with _is_too_old on its own
MaxSlack == 4         \* days around the max-age boundary tried with _is_too_old
MaxFields == 2        \* string date fields set in an entry handed to get_article_date
NumInstances == 2     \* pipeline invocations that overlap on one feed

\* --------------------------------------------------------------- constants
NONE == "None"
max_age == 2                        \* ArticleFilter.max_age, in time units
Now == 4                            \* datetime.now(timezone.utc)
Dispositions == {"read", "maybe", "skip"}
CollectionOrder == <<"read", "maybe", "skip">>   \* config['raindrop']['collections']

\* ------------------------------------------------- classifier: LLM outcomes
\* What the world answers when _analyze_content runs for an article:
\*   encode_raises  the tokenizer rejects the article text (before the try)
\*   call_raises    chat.completions.create raises
\*   content_none   the message content is None
\*   text           a response text: surrounded by whitespace or not (ws),
\*                  whose body is invalid JSON, a JSON non-object, or an object
\*                  with a collection and a reason (NONE when the key is absent)
Outcome(k, w, b, c, r) ==
    [kind |-> k, ws |-> w, body |-> b, collection |-> c, reason |-> r]

LLMOutcomes ==
    {Outcome(k, FALSE, "none", NONE, NONE) :
        k \in {"encode_raises", "call_raises", "content_none"}}
    \cup {Outcome("text", w, b, NONE, NONE) :
        w \in BOOLEAN, b \in {"invalid", "non_object"}}
    \cup {Outcome("text", w, "object", c, r) :
        w \in BOOLEAN,
        c \in {NONE, "", "read", "maybe", "skip", "archive"},
        r \in {NONE, "", "why"}}

ValidRead == Outcome("text", FALSE, "object", "read", "why")
ValidSkip == Outcome("text", FALSE, "object", "skip", "why")
EncodeRaises == Outcome("encode_raises", FALSE, "none", NONE, NONE)

\* A feed entry: its resolvable date (0: none), whether it has a link, and
\* the outcome the classifier produces for its title and summary.
Articles == [date : 0..MaxDate, link : BOOLEAN, llm : LLMOutcomes]

\* ------------------------------------------------------ classifier: results
Result(c, r) == [raised |-> FALSE, collection |-> c, reason |-> r]
Raised == [raised |-> TRUE, collection |-> NONE, reason |-> NONE]

Falsy(x) == x \in {NONE, ""}                 \* Python's `not x` on str/None

str_strip(text) == [text EXCEPT !.ws = FALSE]

\* json.loads: "error" for a JSONDecodeError, else the parsed value.
\* Surrounding whitespace is accepted by the parser itself.
json_loads(text) ==
    IF text.body = "invalid" THEN "error"
    ELSE IF text.body = "non_object" THEN "non_object"
    ELSE "dict"

\* ------------------------------------------------------ utils.py: dates
\* A datetime is [kind, t, tz]: the instant t, read as UTC when tz is FALSE
\* (a naive datetime); None and a raised exception are values of their own.
Datetime(t, tz) == [kind |-> "datetime", t |-> t, tz |-> tz]
NoDate == [kind |-> "none", t |-> 0, tz |-> FALSE]
Raises == [kind |-> "raises", t |-> 0, tz |-> FALSE]

\* What an entry field or a stored attribute can hold: nothing (missing, None
\* or empty), a value no parser accepts, an RFC 2822 date, an ISO 8601 date
\* (each with or without a zone), a time tuple, a tuple datetime() rejects.
Absent == [kind |-> "absent", t |-> 0, tz |-> FALSE]
Garbage == [kind |-> "garbage", t |-> 0, tz |-> FALSE]
BadTuple == [kind |-> "bad_tuple", t |-> 0, tz |-> FALSE]
StructTime(t) == [kind |-> "struct_time", t |-> t, tz |-> FALSE]
DateText(form, t, tz) == [kind |-> form, t |-> t, tz |-> tz]
TextValues ==
    {Absent, Garbage}
    \cup {DateText(form, t, tz) : form \in {"rfc2822", "iso"}, t \in 1..MaxDate, tz \in BOOLEAN}
TupleValues == {Absent, BadTuple} \cup {StructTime(t) : t \in 1..MaxDate}

\* variant: a naive datetime is returned as it is
ensure_timezone_Unchanged(dt) == dt

\* ensure_timezone: None stays None, a naive datetime gets tzinfo=UTC
ensure_timezone(dt) ==
    IF dt.kind # "datetime" THEN dt
    ELSE IF ~dt.tz THEN [dt EXCEPT !.tz = TRUE]
    ELSE dt

\* email.utils.parsedate_to_datetime: raises on anything but an RFC 2822 date
parsedate_to_datetime(value) ==
    IF value.kind = "rfc2822" THEN Datetime(value.t, value.tz) ELSE Raises

\* datetime.fromisoformat (after 'Z' is replaced by '+00:00'): raises on
\* anything but an ISO 8601 date
fromisoformat(value) ==
    IF value.kind = "iso" THEN Datetime(value.t, value.tz) ELSE Raises

\* datetime.isoformat: the offset is written only for an aware datetime
isoformat(dt) == DateText("iso", dt.t, dt.tz)

\* parse_date: RFC 2822 first, then ISO 8601, else None
parse_date(date_str) ==
    LET rfc == parsedate_to_datetime(date_str) IN
    IF rfc.kind # "raises" THEN ensure_timezone(rfc)
    ELSE LET iso == fromisoformat(date_str) IN
         IF iso.kind # "raises" THEN ensure_timezone(iso) ELSE NoDate

\* variant: the entry's updated field is tried first
field_parsers_UpdatedFirst == <<"updated", "published", "pubDate", "created", "createDate">>

\* get_article_date, lines 72-79: the fields tried after published_parsed
field_parsers == <<"published", "pubDate", "created", "createDate", "updated">>

\* the entries of a parsed feed, as get_article_date reads them
RawEntryFields == {"published_parsed"} \cup {field_parsers[i] : i \in DOMAIN field_parsers}

RECURSIVE FirstParsed(_, _)
\* get_article_date, lines 81-92: the first field from position n on that is
\* set and parses
FirstParsed(entry, n) ==
    IF n > Len(field_parsers) THEN NoDate
    ELSE LET value == entry[field_parsers[n]]
             date == IF value.kind = "absent" THEN NoDate ELSE parse_date(value)
         IN IF date.kind = "datetime" THEN date ELSE FirstParsed(entry, n + 1)

\* get_article_date on an entry's date fields
ResolveDate(entry) ==
    LET pp == entry.published_parsed IN
    IF pp.kind = "struct_time" THEN ensure_timezone(Datetime(pp.t, FALSE))
    ELSE FirstParsed(entry, 1)

\* the instant of an optional datetime, 0 for None
Instant(dt) == IF dt.kind = "datetime" THEN dt.t ELSE 0

\* the date fields of an article of the pipeline, whose date stands for the
\* time tuple feedparser computed (none when the date is 0)
FeedEntry(article) ==
    [f \in RawEntryFields |->
        IF f = "published_parsed" /\ article.date # 0 THEN StructTime(article.date)
        ELSE Absent]

\* the instant get_article_date resolves for each date a pipeline article carries
NormalizedDates == [d \in 0..MaxDate |-> Instant(ResolveDate(FeedEntry([date |-> d])))]

get_article_date(article) == NormalizedDates[article.date]

\* __init__, line 36: timedelta(days=max_age_years * 365)
DaysPerYear == 365
MaxAgeOf(max_age_years) == max_age_years * DaysPerYear

\* variant: an article exactly max_age old counts as too old
AgeExceeds_Inclusive(now, pub_date, maxAge) == now - pub_date >= maxAge

\* line 102: `now - pub_date > self.max_age`
AgeExceeds(now, pub_date, maxAge) == now - pub_date > maxAge

_is_too_old(pub_date) == AgeExceeds(Now, pub_date, max_age)

\* variant: the two-way policy's fallback (skip) on a failed classification
_analyze_content_Fallback(article) ==
    LET llm == article.llm IN
    IF llm.kind = "encode_raises" THEN Raised
    ELSE IF llm.kind = "text" /\ llm.body = "object"
            /\ llm.collection \in {"read", "maybe", "skip"}
            /\ ~Falsy(llm.reason)
         THEN Result(llm.collection, llm.reason)
    ELSE Result("skip", "Error during analysis")

\* variant: no except clauses, and an empty reason passed through
_analyze_content_NoCatch(article) ==
    LET llm == article.llm IN
    IF llm.kind \in {"encode_raises", "call_raises", "content_none"} THEN Raised
    ELSE IF json_loads(str_strip(llm)) = "error" THEN Raised
    ELSE IF json_loads(str_strip(llm)) = "non_object"
         THEN Result("maybe", "Invalid response format from analysis")
    ELSE IF Falsy(llm.collection) THEN Result("maybe", "Missing collection in analysis response")
    ELSE IF Falsy(llm.reason) THEN Result("maybe", "")
    ELSE IF llm.collection \notin {"read", "maybe", "skip"}
         THEN Result("maybe", "Invalid collection value")
    ELSE Result(llm.collection, llm.reason)

_analyze_content(article) ==
    LET llm == article.llm IN
    \* _get_article_content / _build_analysis_prompt run outside the try
    IF llm.kind = "encode_raises" THEN Raised
    \* except Exception around the completion call and the parsing
    ELSE IF llm.kind = "call_raises" THEN Result("maybe", "Error during analysis")
    ELSE IF llm.kind = "content_none" THEN Result("maybe", "Error during analysis")
    ELSE LET cleaned == str_strip(llm)
             first == json_loads(cleaned)
             \* the retry strips again, which changes nothing after strip()
             parsed == IF first = "error" THEN json_loads(str_strip(cleaned)) ELSE first
         IN IF parsed = "error"
               THEN Result("maybe", "Error parsing analysis response")
            ELSE IF parsed # "dict"
               THEN Result("maybe", "Invalid response format from analysis")
            ELSE IF Falsy(llm.collection)
               THEN Result("maybe", "Missing collection in analysis response")
            ELSE IF Falsy(llm.reason)
               THEN Result("maybe", "Missing reason in analysis response")
            ELSE IF llm.collection \notin {"read", "maybe", "skip"}
               THEN Result("maybe", "Invalid collection value")
            ELSE Result(llm.collection, llm.reason)

\* variant: the age rule tried before the required-field rules
analyze_article_AgeFirst(article, hasClient) ==
    LET pub_date == get_article_date(article) IN
    IF pub_date # 0 /\ _is_too_old(pub_date)
       THEN Result("skip", "Article is older than max_age days")
    ELSE IF ~article.link THEN Result("maybe", "Missing required link field")
    ELSE IF pub_date = 0 THEN Result("maybe", "Could not determine publication date")
    ELSE IF hasClient THEN _analyze_content(article)
    ELSE Result("maybe", "No content analysis available")

analyze_article(article, hasClient) ==
    LET pub_date == get_article_date(article) IN
    IF ~article.link THEN Result("maybe", "Missing required link field")
    ELSE IF pub_date = 0 THEN Result("maybe", "Could not determine publication date")
    ELSE IF _is_too_old(pub_date)
       THEN Result("skip", "Article is older than max_age days")
    ELSE IF hasClient THEN _analyze_content(article)
    ELSE Result("maybe", "No content analysis available")

\* ------------------------------------------------------------------ state
VARIABLES
    \* configuration
    feeds,            \* config['feeds']: sequence of feed keys
    save_skipped,     \* config['raindrop']['save_skipped']
    batch_size,       \* config['processing']['batch_size']
    runs,             \* invocations of process_feeds the scheduler makes
    hasCallback,      \* process_feeds called with should_shutdown (main) or not (lambda_handler)
    client,           \* ArticleFilter.client is configured
    \* environment
    upstream,         \* per feed: [fixed, content]; fixed content is what every fetch returns
    store,            \* the state table: per feed [last_pub_date, last_processed, processed_count]
    shutdown,         \* should_shutdown Event
    \* control and locals of process_feeds / _process_single_feed
    pc, run, feedIdx,
    entries, new_articles, batchIdx, total_processed, latest_date,
    \* observation
    attempted,        \* feeds handed to _process_single_feed in this run, in order
    failedFeeds,      \* feeds whose processing raised in this run
    status,           \* outcome of the feed last entered
    pre,              \* the feed's store record when the feed was entered
    readOk,           \* the state read at feed entry succeeded
    sent, sentMax,    \* items created in the store for this feed in this run, and their max date
    log,              \* per processed batch: its articles, its batch_count, the number of
                      \* items it created, latest_date after it
    cancelledAt,      \* number of batches processed when the loop broke on cancellation, else -1
    runSent,          \* items created in the store in this run
    faultRuns,        \* runs in which a fetch failed, a feed raised, a creation call
                      \* failed, the state write failed or cancellation was signalled
    \* harness of the pure classifier functions
    fpc, fArticle, fResult,
    \* harness of the other pure functions: the arguments and the returned value
    fIn, fOut

cfgVars == <<feeds, runs, save_skipped, batch_size, hasCallback, client>>
envVars == <<upstream, store, shutdown>>
locVars == <<entries, new_articles, batchIdx, total_processed, latest_date>>
obsVars == <<attempted, failedFeeds, status, pre, readOk, sent, sentMax, log,
             cancelledAt, runSent, faultRuns>>
fVars == <<fpc, fArticle, fResult, fIn, fOut>>
vars == <<cfgVars, envVars, pc, run, feedIdx, locVars, obsVars, fVars>>

\* ------------------------------------------------------- pipeline: helpers
Range(s) == {s[i] : i \in DOMAIN s}
Max(S) == CHOOSE x \in S : \A y \in S : y <= x
MaxDateOf(arts) == IF arts = <<>> THEN 0 ELSE Max({arts[i].date : i \in DOMAIN arts})
Min2(a, b) == IF a < b THEN a ELSE b

RECURSIVE Concat(_, _)
\* seqs[1] \o ... \o seqs[n]
Concat(seqs, n) == IF n = 0 THEN <<>> ELSE Concat(seqs, n - 1) \o seqs[n]

\* Entries a fetch can return.  The classifier outcome of an entry that never
\* reaches the classifier (no date, no link, too old) is fixed to one value.
PipelineOutcomes == {ValidRead, ValidSkip, EncodeRaises}
Entries ==
    {a \in [date : 0..MaxDate, link : BOOLEAN, llm : PipelineOutcomes] :
        /\ (a.date = 0 => (a.link /\ a.llm = ValidRead))
        /\ ((~a.link \/ (a.date # 0 /\ _is_too_old(a.date))) => a.llm = ValidRead)}
RECURSIVE SeqsUpTo(_, _)
SeqsUpTo(S, n) ==
    IF n = 0 THEN {<<>>}
    ELSE LET shorter == SeqsUpTo(S, n - 1)
         IN shorter \cup {Append(q, x) : q \in {r \in shorter : Len(r) = n - 1}, x \in S}
Contents == SeqsUpTo(Entries, MaxEntries)
BatchSizes == {1, 2}
\* the list positions 1..n, standing for n distinct articles
Positions(n) == [i \in 1..n |-> i]

\* ---------------------------------------------------- pipeline: functions
\* variant: an entry dated exactly at the mark counts as new
IsNew_Inclusive(normalized_date, last_pub_date) ==
    last_pub_date = 0 \/ normalized_date >= last_pub_date

\* line 246: `not last_pub_date or entry['normalized_date'] > last_pub_date`
IsNew(normalized_date, last_pub_date) ==
    last_pub_date = 0 \/ normalized_date > last_pub_date

RECURSIVE SortByDateDesc_Ascending(_, _)
RECURSIVE SortByDateDesc(_, _)
\* variant: the sort without reverse=True
SortByDateDesc_Ascending(arts, d) ==
    IF d = 0 THEN <<>>
    ELSE SortByDateDesc_Ascending(arts, d - 1) \o SelectSeq(arts, LAMBDA a : a.date = d)

\* list.sort(key=normalized_date, reverse=True): stable, newest first
SortByDateDesc(arts, d) ==
    IF d = 0 THEN <<>>
    ELSE SelectSeq(arts, LAMBDA a : a.date = d) \o SortByDateDesc(arts, d - 1)

_get_new_articles(feedEntries, last_pub_date) ==
    LET dated == SelectSeq(feedEntries,
                     LAMBDA e : get_article_date(e) # 0
                                /\ IsNew(get_article_date(e), last_pub_date))
    IN SortByDateDesc(dated, MaxDate)

\* variant: only the full slices are yielded
NumBatches_FullOnly(arts, size) == Len(arts) \div size

\* range(0, len(articles), batch_size): the number of lists yielded
NumBatches(arts, size) == (Len(arts) + size - 1) \div size

\* the i-th list yielded by _batch_articles
_batch_articles(arts, size, i) ==
    SubSeq(arts, (i - 1) * size + 1, Min2(i * size, Len(arts)))

\* variant: no try/except around one article, an error ends the grouping
Grouped_AbortOnError(batch, c) ==
    IF \E i \in DOMAIN batch : analyze_article(batch[i], client).raised THEN <<>>
    ELSE SelectSeq(batch, LAMBDA a :
            analyze_article(a, client).collection = c /\ c \in Range(CollectionOrder))

\* _process_article_batch, first loop: the articles appended to a collection
Grouped(batch, c) ==
    SelectSeq(batch, LAMBDA a :
        LET r == analyze_article(a, client)
        IN ~r.raised /\ r.collection = c /\ c \in Range(CollectionOrder))

\* variant: the skip group is sent whatever save_skipped says
SkipGroupDropped_Never(c, saveSkipped) == FALSE

\* line 359: `collection == 'skip' and not save_skipped`
SkipGroupDropped(c, saveSkipped) == c = "skip" /\ ~saveSkipped

\* add_bookmarks is called for the group
Called(batch, c) == Grouped(batch, c) # <<>> /\ ~SkipGroupDropped(c, save_skipped)

\* add_bookmarks: the items of the request (articles without link are left out)
Items(batch, c) == SelectSeq(Grouped(batch, c), LAMBDA a : a.link)

\* add_bookmarks: the request is sent (no items: return 0 without a request)
Posts(batch, c) == Called(batch, c) /\ Items(batch, c) # <<>>

\* variant: the group is counted although add_bookmarks raised
Counted_EvenIfRaised(batch, c, ok) == Called(batch, c)

\* line 368 is reached: add_bookmarks returned without raising
Counted(batch, c, ok) == Called(batch, c) /\ (Posts(batch, c) => ok[c])

RECURSIVE SumLen(_, _, _)
SumLen(batch, ok, n) ==
    IF n = 0 THEN 0
    ELSE SumLen(batch, ok, n - 1)
         + (IF Counted(batch, CollectionOrder[n], ok)
            THEN Len(Grouped(batch, CollectionOrder[n])) ELSE 0)

\* the return value of _process_article_batch
_process_article_batch(batch, ok) == SumLen(batch, ok, Len(CollectionOrder))

\* the items created in the store by the batch, in request order
Created(batch, ok) ==
    Concat([n \in 1..Len(CollectionOrder) |->
              IF Posts(batch, CollectionOrder[n]) /\ ok[CollectionOrder[n]]
              THEN Items(batch, CollectionOrder[n]) ELSE <<>>],
           Len(CollectionOrder))

\* __init__, lines 54-56: the collection id configured for each disposition
collections == [read |-> 1, maybe |-> 2, skip |-> 3]

\* lines 339-340: the reasons appended next to the articles of a collection
Reasons(batch, c) ==
    [i \in DOMAIN Grouped(batch, c) |-> analyze_article(Grouped(batch, c)[i], client).reason]

\* variant: the reason is taken at the item's position in the request
add_bookmarks_items_ByItemPosition(articles, collection_id, reasons) ==
    LET linked == SelectSeq(articles, LAMBDA a : a.link)
    IN [j \in DOMAIN linked |->
          [article |-> linked[j], excerpt |-> reasons[j], collection |-> collection_id]]

\* add_bookmarks, lines 50-73: one item per article with a link, its excerpt
\* the reason at the article's index (a reason is never empty)
add_bookmarks_items(articles, collection_id, reasons) ==
    SelectSeq([i \in DOMAIN articles |->
                 [article |-> articles[i], excerpt |-> reasons[i],
                  collection |-> collection_id]],
              LAMBDA item : item.article.link)

\* variant: add_bookmarks is called for an empty group too
GroupCall_EvenEmpty(batch, c, ok) ==
    IF ~SkipGroupDropped(c, save_skipped)
    THEN <<[collection_id |-> collections[c],
            articles |-> Grouped(batch, c),
            items |-> add_bookmarks_items(Grouped(batch, c), collections[c],
                                          Reasons(batch, c)),
            raised |-> Posts(batch, c) /\ ~ok[c]]>>
    ELSE <<>>

\* lines 350-367: the add_bookmarks call made for a collection, if any: its
\* arguments, the items of its request and whether it raised
GroupCall(batch, c, ok) ==
    IF Called(batch, c)
    THEN <<[collection_id |-> collections[c],
            articles |-> Grouped(batch, c),
            items |-> add_bookmarks_items(Grouped(batch, c), collections[c],
                                          Reasons(batch, c)),
            raised |-> Posts(batch, c) /\ ~ok[c]]>>
    ELSE <<>>

\* the add_bookmarks calls of one batch, in the order of the collections
AddBookmarksCalls(batch, ok) ==
    Concat([n \in 1..Len(CollectionOrder) |-> GroupCall(batch, CollectionOrder[n], ok)],
           Len(CollectionOrder))

\* lines 186-187: max over every article of the batch
BatchMaxDate(batch, ok) == MaxDateOf(batch)

\* line 188
NextLatest(max_date, latest) ==
    IF latest # 0 THEN (IF max_date > latest THEN max_date ELSE latest) ELSE max_date

\* -------------------------------------------------------------- state store
EmptyItem == [last_pub_date |-> 0, last_processed |-> 0, processed_count |-> 0]

\* the table holds nothing for the feed, or what an earlier run stored
StoredItems ==
    {EmptyItem} \cup {[last_pub_date |-> m, last_processed |-> 0, processed_count |-> 1] :
                        m \in 1..MaxDate}

\* get_item, or {} when the read raises ClientError
get_feed_state(feed, ok) == IF ok THEN store[feed] ELSE EmptyItem

\* the last_pub_date attribute of an item: update_item stores the isoformat
\* of the datetime made aware at lines 119-121
StoredAttr(item) ==
    IF item.last_pub_date = 0 THEN Absent
    ELSE isoformat(ensure_timezone(Datetime(item.last_pub_date, FALSE)))

\* get_last_pub_date, lines 86-96: nothing stored gives None, and so does a
\* value fromisoformat rejects
ParseStored(last_pub) ==
    IF last_pub.kind = "absent" THEN NoDate
    ELSE IF fromisoformat(last_pub).kind = "raises" THEN NoDate
    ELSE fromisoformat(last_pub)

get_last_pub_date(feed, ok) == Instant(ParseStored(StoredAttr(get_feed_state(feed, ok))))

\* get_item returns, raises ClientError, or raises an exception of another
\* class (a connection error, a timeout), which `except ClientError` lets pass
ReadOutcomes == {"item", "ClientError", "other error"}

\* get_feed_state(...).get('last_pub_date') for a read outcome and the stored value
ReadAttr(outcome, stored) ==
    IF outcome = "item" THEN stored
    ELSE IF outcome = "ClientError" THEN Absent
    ELSE Raises

\* get_last_pub_date for a read outcome and the stored value
LastPubDate(outcome, stored) ==
    IF ReadAttr(outcome, stored).kind = "raises" THEN Raises
    ELSE ParseStored(ReadAttr(outcome, stored))

\* variant: the call sets one attribute, the others follow in later calls
update_item_OneAttribute(item, lpd, lp, count) == [item EXCEPT !.last_pub_date = lpd]

\* lines 131-139: one update_item whose SET expression names the three
\* attributes; the table applies an update of one item as a whole
update_item(item, lpd, lp, count) ==
    [item EXCEPT !.last_pub_date = lpd, !.last_processed = lp, !.processed_count = count]

\* the item after update_feed_state; ok is the outcome of the read of the current count
update_feed_state(feed, last_pub_date, processed_count, ok) ==
    update_item(store[feed], last_pub_date, run,
                get_feed_state(feed, ok).processed_count + processed_count)

\* ------------------------------------------------------------------- Init
InitObs ==
    /\ attempted = <<>> /\ failedFeeds = {} /\ status = "none"
    /\ pre = EmptyItem /\ readOk = TRUE /\ sent = 0 /\ sentMax = 0 /\ log = <<>>
    /\ cancelledAt = -1 /\ runSent = 0
    /\ faultRuns = {}

InitLocals ==
    /\ pc = "idle" /\ run = 0 /\ feedIdx = 0 /\ shutdown = FALSE
    /\ entries = <<>> /\ new_articles = <<>> /\ batchIdx = 1
    /\ total_processed = 0 /\ latest_date = 0
    /\ store = [f \in 1..NumFeeds |-> EmptyItem]

FilterOff ==
    /\ fpc = "off"
    /\ fArticle = [date |-> 0, link |-> FALSE, llm |-> ValidRead]
    /\ fResult = [op |-> "none", res |-> Raised]
    /\ fIn = NONE /\ fOut = NONE

\* one invocation over the feed list; every fetch is free to return any content
Init ==
    /\ feeds = [i \in 1..NumFeeds |-> i]
    /\ runs = 1
    /\ save_skipped \in BOOLEAN
    /\ batch_size \in BatchSizes
    /\ hasCallback \in BOOLEAN
    /\ client = TRUE
    /\ upstream = [f \in 1..NumFeeds |-> [fixed |-> FALSE, content |-> <<>>]]
    /\ InitLocals /\ InitObs /\ FilterOff

\* successive invocations over one feed whose content stays the same
InitRerun ==
    /\ feeds = <<1>>
    /\ runs = MaxRuns
    /\ save_skipped \in BOOLEAN
    /\ batch_size \in BatchSizes
    /\ hasCallback \in BOOLEAN
    /\ client = TRUE
    /\ \E c \in Contents :
         upstream = [f \in 1..NumFeeds |-> [fixed |-> TRUE, content |-> c]]
    /\ InitLocals /\ InitObs /\ FilterOff

\* the classifier functions applied to one article
InitFilter ==
    /\ feeds = <<>>
    /\ runs = 0
    /\ save_skipped = TRUE /\ batch_size = 1 /\ hasCallback = TRUE
    /\ client \in BOOLEAN
    /\ upstream = [f \in 1..NumFeeds |-> [fixed |-> FALSE, content |-> <<>>]]
    /\ InitLocals /\ InitObs
    /\ fpc = "ready"
    /\ fArticle \in Articles
    /\ fResult = [op |-> "none", res |-> Raised]
    /\ fIn = NONE /\ fOut = NONE

\* ---------------------------------------------------------------- actions
\* variant: the except clause of process_feeds leaves the loop
process_feeds_except_Abort == "idle"

\* process_feeds, lines 125-127: the error is logged and the for loop goes on
process_feeds_except == "loop"

\* a new invocation of process_feeds (a new process: the Event starts clear)
StartRun ==
    /\ pc = "idle" /\ fpc = "off" /\ run < runs
    /\ run' = run + 1 /\ feedIdx' = 0 /\ shutdown' = FALSE /\ pc' = "loop"
    /\ attempted' = <<>> /\ failedFeeds' = {} /\ status' = "none"
    /\ runSent' = 0
    /\ UNCHANGED <<cfgVars, upstream, store, locVars, pre, readOk, sent, sentMax,
                   log, cancelledAt, faultRuns, fVars>>

\* signal_handler: SIGINT / SIGTERM sets the Event (main only)
Signal ==
    /\ pc \in {"loop", "batch"} /\ hasCallback /\ ~shutdown
    /\ shutdown' = TRUE
    /\ faultRuns' = faultRuns \cup {run}
    /\ UNCHANGED <<cfgVars, upstream, store, pc, run, feedIdx, locVars, attempted,
                   failedFeeds, status, pre, readOk, sent, sentMax, log, cancelledAt,
                   runSent, fVars>>

\* process_feeds: the for loop is exhausted
LoopEnd ==
    /\ pc = "loop" /\ feedIdx = Len(feeds)
    /\ pc' = "idle"
    /\ UNCHANGED <<cfgVars, envVars, run, feedIdx, locVars, obsVars, fVars>>

\* process_feeds, lines 118-122: shutdown seen before a feed, break
LoopShutdown ==
    /\ pc = "loop" /\ feedIdx < Len(feeds) /\ hasCallback /\ shutdown
    /\ pc' = "idle"
    /\ UNCHANGED <<cfgVars, envVars, run, feedIdx, locVars, obsVars, fVars>>

\* variant: the callback is not polled before a feed
CanEnterFeed_NoPoll == pc = "loop" /\ feedIdx < Len(feeds)

\* lines 112-124: the next feed is entered unless the callback returns true
CanEnterFeed == pc = "loop" /\ feedIdx < Len(feeds) /\ ~(hasCallback /\ shutdown)

\* _process_single_feed is called for the next feed
EnterFeed(f) ==
    /\ feedIdx' = feedIdx + 1
    /\ attempted' = Append(attempted, f)
    /\ pre' = store[f]
    /\ sent' = 0 /\ sentMax' = 0 /\ log' = <<>> /\ cancelledAt' = -1
    /\ batchIdx' = 1 /\ total_processed' = 0 /\ latest_date' = 0

\* _fetch_feed_content returns None (RequestException): return
FetchFailed ==
    /\ CanEnterFeed
    /\ EnterFeed(feeds[feedIdx + 1])
    /\ entries' = <<>> /\ new_articles' = <<>>
    /\ status' = "fetch_failed" /\ readOk' = TRUE
    /\ faultRuns' = faultRuns \cup {run}
    /\ UNCHANGED <<cfgVars, envVars, pc, run, failedFeeds, runSent, fVars>>

\* fetch, parse, state read or diff raises: caught at lines 203-206, re-raised,
\* caught at lines 125-127
FeedRaises ==
    /\ CanEnterFeed
    /\ EnterFeed(feeds[feedIdx + 1])
    /\ entries' = <<>> /\ new_articles' = <<>>
    /\ status' = "failed" /\ readOk' = TRUE
    /\ failedFeeds' = failedFeeds \cup {feeds[feedIdx + 1]}
    /\ faultRuns' = faultRuns \cup {run}
    /\ pc' = process_feeds_except
    /\ UNCHANGED <<cfgVars, envVars, run, runSent, fVars>>

\* _process_single_feed, lines 143-166: fetch, parse, read the mark, diff
FeedFetched ==
    /\ CanEnterFeed
    /\ LET f == feeds[feedIdx + 1] IN
       \E c \in (IF upstream[f].fixed THEN {upstream[f].content} ELSE Contents),
          rOk \in BOOLEAN :
          LET last_pub_date == get_last_pub_date(f, rOk)
              fresh == _get_new_articles(c, last_pub_date)
          IN /\ (c = <<>> => rOk)
             /\ EnterFeed(f)
             /\ entries' = c
             /\ readOk' = rOk
             /\ IF c = <<>>
                  THEN new_articles' = <<>> /\ status' = "skipped_empty" /\ pc' = "loop"
                  ELSE IF fresh = <<>>
                  THEN new_articles' = <<>> /\ status' = "no_new" /\ pc' = "loop"
                  ELSE new_articles' = fresh /\ status' = "running" /\ pc' = "batch"
    /\ UNCHANGED <<cfgVars, envVars, run, failedFeeds, runSent, faultRuns, fVars>>

\* line 175 with should_shutdown = None: TypeError, caught at the feed boundary
BatchLoopRaises ==
    /\ pc = "batch" /\ ~hasCallback
    /\ status' = "failed"
    /\ failedFeeds' = failedFeeds \cup {feeds[feedIdx]}
    /\ faultRuns' = faultRuns \cup {run}
    /\ pc' = process_feeds_except
    /\ UNCHANGED <<cfgVars, envVars, run, feedIdx, locVars, attempted, pre, readOk,
                   sent, sentMax, log, cancelledAt, runSent, fVars>>

\* lines 172-193: one iteration of the batch loop; ok[c] is the outcome of the
\* creation request for collection c
ProcessBatch ==
    /\ pc = "batch" /\ hasCallback /\ ~shutdown
    /\ batchIdx <= NumBatches(new_articles, batch_size)
    /\ LET batch == _batch_articles(new_articles, batch_size, batchIdx) IN
       \E ok \in [Dispositions -> BOOLEAN] :
          LET batch_count == _process_article_batch(batch, ok)
              created == Created(batch, ok)
          IN /\ \A c \in Dispositions : ~Posts(batch, c) => ok[c]
             /\ total_processed' = total_processed + batch_count
             /\ latest_date' = IF batch_count > 0
                               THEN NextLatest(BatchMaxDate(batch, ok), latest_date)
                               ELSE latest_date
             /\ batchIdx' = batchIdx + 1
             /\ sent' = sent + Len(created)
             /\ runSent' = runSent + Len(created)
             /\ sentMax' = IF MaxDateOf(created) > sentMax THEN MaxDateOf(created) ELSE sentMax
             /\ log' = Append(log, [arts |-> batch, count |-> batch_count,
                                    items |-> Len(created), latest |-> latest_date',
                                    created |-> created,
                                    failed |-> {c \in Dispositions : ~ok[c]}])
             \* a signal may arrive while the batch's calls are in progress:
             \* the handler sets the Event, which the batch never reads
             /\ \E sig \in BOOLEAN :
                  /\ shutdown' = sig
                  /\ faultRuns' = IF sig \/ \E c \in Dispositions : ~ok[c]
                                  THEN faultRuns \cup {run} ELSE faultRuns
    /\ UNCHANGED <<cfgVars, upstream, store, pc, run, feedIdx, entries, new_articles,
                   attempted, failedFeeds, status, pre, readOk, cancelledAt, fVars>>

\* variant: the generator never signals its end
BatchesConsumed_Never == FALSE

\* _batch_articles, line 285: the range over the article list is exhausted
BatchesConsumed == batchIdx > NumBatches(new_articles, batch_size)

\* variant: the code after the loop does not wait for the loop's end
LoopOver_AnyTime == pc = "batch" /\ hasCallback

\* lines 172-177: the batches are consumed or the callback returned true
LoopOver == pc = "batch" /\ hasCallback /\ (shutdown \/ BatchesConsumed)

Broke == IF batchIdx <= NumBatches(new_articles, batch_size) THEN batchIdx - 1 ELSE -1

\* line 196 is false: the feed returns without a state write
FinishNoWrite ==
    /\ LoopOver
    /\ ~(total_processed > 0 /\ latest_date # 0)
    /\ cancelledAt' = Broke
    /\ status' = "done" /\ pc' = "loop"
    /\ UNCHANGED <<cfgVars, envVars, run, feedIdx, locVars, attempted, failedFeeds, pre,
                   readOk, sent, sentMax, log, runSent, faultRuns, fVars>>

\* lines 196-201: update_feed_state succeeds (its read of the count may fail)
FinishWrite ==
    /\ LoopOver
    /\ total_processed > 0 /\ latest_date # 0
    /\ \E rOk \in BOOLEAN :
         /\ store' = [store EXCEPT ![feeds[feedIdx]] =
                        update_feed_state(feeds[feedIdx], latest_date, total_processed, rOk)]
    /\ cancelledAt' = Broke
    /\ status' = "done" /\ pc' = "loop"
    /\ UNCHANGED <<cfgVars, upstream, shutdown, run, feedIdx, locVars, attempted,
                   failedFeeds, pre, readOk, sent, sentMax, log, runSent,
                   faultRuns, fVars>>

\* lines 196-201: update_item raises ClientError, re-raised to the feed boundary
FinishWriteFails ==
    /\ LoopOver
    /\ total_processed > 0 /\ latest_date # 0
    /\ cancelledAt' = Broke
    /\ status' = "failed"
    /\ failedFeeds' = failedFeeds \cup {feeds[feedIdx]}
    /\ faultRuns' = faultRuns \cup {run}
    /\ pc' = process_feeds_except
    /\ UNCHANGED <<cfgVars, envVars, run, feedIdx, locVars, attempted, pre, readOk,
                   sent, sentMax, log, runSent, fVars>>

Next ==
    \/ StartRun \/ Signal \/ LoopEnd \/ LoopShutdown
    \/ FetchFailed \/ FeedRaises \/ FeedFetched
    \/ BatchLoopRaises \/ ProcessBatch
    \/ FinishNoWrite \/ FinishWrite \/ FinishWriteFails

Spec == Init /\ [][Next]_vars

SpecRerun == InitRerun /\ [][Next]_vars

\* one invocation over the feed list, every fetch returning the same content
InitOnce ==
    /\ feeds = [i \in 1..NumFeeds |-> i]
    /\ runs = 1
    /\ save_skipped = TRUE
    /\ batch_size \in BatchSizes
    /\ hasCallback \in BOOLEAN
    /\ client = TRUE
    /\ \E c \in Contents :
         upstream = [f \in 1..NumFeeds |-> [fixed |-> TRUE, content |-> c]]
    /\ InitLocals /\ InitObs /\ FilterOff

\* the steps of the process itself: every one is a synchronous call that
\* returns or raises, so the single thread always takes its next step; the
\* signal is the environment's and may never come
ProgramStep ==
    \/ StartRun \/ LoopEnd \/ LoopShutdown
    \/ FetchFailed \/ FeedRaises \/ FeedFetched
    \/ BatchLoopRaises \/ ProcessBatch
    \/ FinishNoWrite \/ FinishWrite \/ FinishWriteFails

SpecOnceFair == InitOnce /\ [][Next]_vars /\ WF_vars(ProgramStep)

\* one invocation over the feed list, the table holding for every feed what
\* an earlier run over other content stored, or nothing
InitStored ==
    /\ feeds = [i \in 1..NumFeeds |-> i]
    /\ runs = 1
    /\ save_skipped = TRUE
    /\ batch_size \in BatchSizes
    /\ hasCallback \in BOOLEAN
    /\ client = TRUE
    /\ \E c \in Contents :
         upstream = [f \in 1..NumFeeds |-> [fixed |-> TRUE, content |-> c]]
    /\ pc = "idle" /\ run = 0 /\ feedIdx = 0 /\ shutdown = FALSE
    /\ entries = <<>> /\ new_articles = <<>> /\ batchIdx = 1
    /\ total_processed = 0 /\ latest_date = 0
    /\ \E item \in StoredItems : store = [f \in 1..NumFeeds |-> item]
    /\ InitObs /\ FilterOff

SpecStored == InitStored /\ [][Next]_vars

\* ----------------------------------------------- classifier function harness
CallAnalyzeArticle ==
    /\ fpc = "ready"
    /\ fResult' = [op |-> "analyze_article", res |-> analyze_article(fArticle, client)]
    /\ fpc' = "done"
    /\ UNCHANGED <<cfgVars, envVars, pc, run, feedIdx, locVars, obsVars, fArticle, fIn, fOut>>

CallAnalyzeContent ==
    /\ fpc = "ready"
    /\ fResult' = [op |-> "_analyze_content", res |-> _analyze_content(fArticle)]
    /\ fpc' = "done"
    /\ UNCHANGED <<cfgVars, envVars, pc, run, feedIdx, locVars, obsVars, fArticle, fIn, fOut>>

NextFilter == CallAnalyzeArticle \/ CallAnalyzeContent

SpecFilter == InitFilter /\ [][NextFilter]_vars

\* ------------------------------------------------ _batch_articles harness
\* the function and the feed-independent parts of the configuration stay off
HarnessOff ==
    /\ feeds = <<>> /\ runs = 0
    /\ save_skipped = TRUE /\ batch_size = 1 /\ hasCallback = TRUE /\ client = TRUE
    /\ upstream = [f \in 1..NumFeeds |-> [fixed |-> FALSE, content |-> <<>>]]
    /\ InitLocals /\ InitObs
    /\ fArticle = [date |-> 0, link |-> FALSE, llm |-> ValidRead]
    /\ fResult = [op |-> "none", res |-> Raised]
    /\ fOut = NONE

\* _batch_articles applied to a list of n articles with a positive batch size
InitBatch ==
    /\ HarnessOff
    /\ fpc = "batch_ready"
    /\ fIn \in [op : {"_batch_articles"}, n : 0..MaxArticles, size : 1..MaxBatchSize]

\* list(_batch_articles(articles, batch_size))
CallBatchArticles ==
    /\ fpc = "batch_ready"
    /\ LET arts == Positions(fIn.n) IN
       fOut' = [i \in 1..NumBatches(arts, fIn.size)
                  |-> _batch_articles(arts, fIn.size, i)]
    /\ fpc' = "done"
    /\ UNCHANGED <<cfgVars, envVars, pc, run, feedIdx, locVars, obsVars,
                   fArticle, fResult, fIn>>

SpecBatch == InitBatch /\ [][CallBatchArticles]_vars

\* ---------------------------------------------------- _is_too_old harness
\* _is_too_old of a filter built with max_age_years, called at instant now for
\* an article published at pub_date; instants are counted in days
InitAge ==
    /\ HarnessOff
    /\ fpc = "age_ready"
    /\ fIn \in {[op |-> "_is_too_old", max_age_years |-> y,
                  now |-> MaxAgeOf(y) + k, pub_date |-> p] :
                  y \in 1..MaxYears, p \in 0..MaxSlack, k \in 0..(MaxSlack + MaxSlack)}

CallIsTooOld ==
    /\ fpc = "age_ready"
    /\ fOut' = AgeExceeds(fIn.now, fIn.pub_date, MaxAgeOf(fIn.max_age_years))
    /\ fpc' = "done"
    /\ UNCHANGED <<cfgVars, envVars, pc, run, feedIdx, locVars, obsVars,
                   fArticle, fResult, fIn>>

SpecAge == InitAge /\ [][CallIsTooOld]_vars

\* ------------------------------------------------ get_article_date harness
\* entries with any time tuple and at most MaxFields string date fields set
RawEntries ==
    UNION {{[f \in RawEntryFields |->
               IF f = "published_parsed" THEN pp
               ELSE IF f \in S THEN g[f] ELSE Absent] :
             pp \in TupleValues, g \in [S -> TextValues \ {Absent}]} :
           S \in {T \in SUBSET (RawEntryFields \ {"published_parsed"}) :
                    Cardinality(T) <= MaxFields}}

\* what the last_pub_date attribute of a feed's record can hold
StoredValues ==
    {Absent, Garbage} \cup {DateText("iso", t, tz) : t \in 1..MaxDate, tz \in BOOLEAN}

\* comparing or subtracting a naive and an aware datetime raises TypeError
Comparable(a, b) == a.tz = b.tz

InitDates ==
    /\ HarnessOff
    /\ fpc = "date_ready"
    /\ fIn \in [op : {"get_article_date"}, entry : RawEntries]

\* line 229: entry['normalized_date'] = get_article_date(entry)
CallGetArticleDate ==
    /\ fpc = "date_ready"
    /\ fOut' = ResolveDate(fIn.entry)
    /\ fpc' = "done"
    /\ UNCHANGED <<cfgVars, envVars, pc, run, feedIdx, locVars, obsVars,
                   fArticle, fResult, fIn>>

\* the comparisons made with a dated entry: against the stored mark
\* (_get_new_articles, lines 224 and 246) and against the current time
\* (_is_too_old, lines 101-102)
CompareDates ==
    /\ fpc = "done" /\ fIn.op = "get_article_date" /\ fOut.kind = "datetime"
    /\ \E stored \in StoredValues :
         LET last_pub_date == ensure_timezone(ParseStored(stored))
             now == Datetime(Now, TRUE)
         IN fOut' = [date |-> fOut,
                     stored |-> stored,
                     mark |-> last_pub_date,
                     newer |-> IF last_pub_date.kind = "none" THEN "not compared"
                               ELSE IF ~Comparable(fOut, last_pub_date) THEN "TypeError"
                               ELSE IF IsNew(fOut.t, last_pub_date.t) THEN "True"
                               ELSE "False",
                     too_old |-> IF ~Comparable(now, fOut) THEN "TypeError"
                                 ELSE IF AgeExceeds(now.t, fOut.t, max_age) THEN "True"
                                 ELSE "False"]
    /\ fpc' = "compared"
    /\ UNCHANGED <<cfgVars, envVars, pc, run, feedIdx, locVars, obsVars,
                   fArticle, fResult, fIn>>

NextDates == CallGetArticleDate \/ CompareDates

SpecDates == InitDates /\ [][NextDates]_vars

\* ----------------------------------------------- get_last_pub_date harness
\* _process_single_feed, lines 160-166, for one read outcome, one stored value
\* and one fetched content
InitMark ==
    /\ HarnessOff
    /\ fpc = "mark_ready"
    /\ fIn \in [op : {"get_last_pub_date"}, read : ReadOutcomes,
                 stored : StoredValues, entries : Contents]

CallGetLastPubDate ==
    /\ fpc = "mark_ready"
    /\ LET last_pub_date == LastPubDate(fIn.read, fIn.stored) IN
       fOut' = [last_pub_date |-> last_pub_date,
                \* an exception leaves the feed before the diff
                new_articles |-> IF last_pub_date.kind = "raises" THEN <<>>
                                 ELSE _get_new_articles(fIn.entries,
                                          Instant(ensure_timezone(last_pub_date)))]
    /\ fpc' = "done"
    /\ UNCHANGED <<cfgVars, envVars, pc, run, feedIdx, locVars, obsVars,
                   fArticle, fResult, fIn>>

SpecMark == InitMark /\ [][CallGetLastPubDate]_vars

\* ------------------------------------------- _process_article_batch harness
\* _process_article_batch applied to one batch, under either save_skipped
InitFiling ==
    /\ feeds = <<>> /\ runs = 0
    /\ save_skipped \in BOOLEAN
    /\ batch_size = 1 /\ hasCallback = TRUE /\ client = TRUE
    /\ upstream = [f \in 1..NumFeeds |-> [fixed |-> FALSE, content |-> <<>>]]
    /\ InitLocals /\ InitObs
    /\ fArticle = [date |-> 0, link |-> FALSE, llm |-> ValidRead]
    /\ fResult = [op |-> "none", res |-> Raised]
    /\ fOut = NONE
    /\ fpc = "filing_ready"
    /\ fIn \in [op : {"_process_article_batch"}, articles : Contents \ {<<>>}]

\* ok[c] is the outcome of the creation request for collection c
CallProcessArticleBatch ==
    /\ fpc = "filing_ready"
    /\ \E ok \in [Dispositions -> BOOLEAN] :
         /\ \A c \in Dispositions : ~Posts(fIn.articles, c) => ok[c]
         /\ fOut' = [calls |-> AddBookmarksCalls(fIn.articles, ok),
                     processed_count |-> _process_article_batch(fIn.articles, ok)]
    /\ fpc' = "done"
    /\ UNCHANGED <<cfgVars, envVars, pc, run, feedIdx, locVars, obsVars,
                   fArticle, fResult, fIn>>

SpecFiling == InitFiling /\ [][CallProcessArticleBatch]_vars

\* ------------------------------------------------------------ startup harness
\* the parsed config.yaml, by what the startup code looks at: which of the
\* keys raindrop.token, raindrop.collections and feeds it has, the token (""
\* is an empty value), the dispositions that have a collection id and the
\* number of feed urls; a key that is missing has no value to vary
ConfigKeys == {"token", "collections", "feeds"}
ConfigShapes ==
    {c \in [keys : SUBSET ConfigKeys, token : {"", "secret"},
            collections : SUBSET Dispositions, feeds : 0..NumFeeds] :
        /\ "token" \notin c.keys => c.token = ""
        /\ "collections" \notin c.keys => c.collections = {}
        /\ "feeds" \notin c.keys => c.feeds = 0}

\* rss_bouncer.load_config: the parsed file as it is; nothing is validated
load_config(config) == config

\* RSSAnalyzer.__init__ subscripts the token and the collections keys: a
\* missing one is a KeyError, an empty token and a mapping without the id of
\* some disposition are taken as they are
RSSAnalyzer__init__(config) ==
    [raised |-> "token" \notin config.keys \/ "collections" \notin config.keys,
     config |-> config]

\* process_feeds, never cancelled: the KeyError of config['feeds'], or one
\* fetch per feed of the list
process_feeds_fetches(config) ==
    [raised  |-> "feeds" \notin config.keys,
     fetched |-> IF "feeds" \in config.keys THEN config.feeds ELSE 0]

\* main and lambda_handler: whether the entry point caught an exception, the
\* signal it ends with (exit status, statusCode) and the number of feeds fetched
Startup(entry, config) ==
    LET analyzer == RSSAnalyzer__init__(load_config(config))
        started  == IF analyzer.raised THEN [raised |-> TRUE, fetched |-> 0]
                    ELSE process_feeds_fetches(analyzer.config)
    IN  [failed  |-> started.raised,
         signal  |-> IF entry = "main" THEN (IF started.raised THEN 1 ELSE 0)
                     ELSE (IF started.raised THEN 500 ELSE 200),
         fetched |-> started.fetched]

InitStartup ==
    /\ feeds = <<>> /\ runs = 0
    /\ save_skipped \in BOOLEAN
    /\ batch_size = 1 /\ hasCallback = TRUE /\ client = TRUE
    /\ upstream = [f \in 1..NumFeeds |-> [fixed |-> FALSE, content |-> <<>>]]
    /\ InitLocals /\ InitObs
    /\ fArticle = [date |-> 0, link |-> FALSE, llm |-> ValidRead]
    /\ fResult = [op |-> "none", res |-> Raised]
    /\ fOut = NONE
    /\ fpc = "startup_ready"
    /\ fIn \in [op : {"main", "lambda_handler"}, config : ConfigShapes]

CallStartup ==
    /\ fpc = "startup_ready"
    /\ fOut' = Startup(fIn.op, fIn.config)
    /\ fpc' = "done"
    /\ UNCHANGED <<cfgVars, envVars, pc, run, feedIdx, locVars, obsVars,
                   fArticle, fResult, fIn>>

SpecStartup == InitStartup /\ [][CallStartup]_vars

\* ------------------------------------------- overlapping pipeline instances
\* NumInstances invocations of the pipeline run at the same time over feed 1
\* and share the state table.  Each has its own locals: where it is, the
\* latest_date and total_processed its batch loop ended with, and the
\* processed_count it read in update_feed_state.  Reads of the table and
\* creation calls succeed here, and no instance is cancelled.
Instances == 1..NumInstances
AllCreated == [c \in Dispositions |-> TRUE]
InstanceIdle == [pc |-> "start", latest_date |-> 0, total_processed |-> 0, current_count |-> 0]

RECURSIVE RunBatches(_, _, _)
\* lines 169-193: total_processed and latest_date after the first k batches
RunBatches(arts, size, k) ==
    IF k = 0 THEN [total_processed |-> 0, latest_date |-> 0]
    ELSE LET before == RunBatches(arts, size, k - 1)
             batch == _batch_articles(arts, size, k)
             batch_count == _process_article_batch(batch, AllCreated)
         IN [total_processed |-> before.total_processed + batch_count,
             latest_date |-> IF batch_count > 0
                             THEN NextLatest(BatchMaxDate(batch, AllCreated), before.latest_date)
                             ELSE before.latest_date]

InitConcurrent ==
    /\ feeds = <<1>> /\ runs = 0
    /\ save_skipped \in BOOLEAN
    /\ batch_size \in BatchSizes
    /\ hasCallback = TRUE /\ client = TRUE
    /\ upstream = [f \in 1..NumFeeds |-> [fixed |-> FALSE, content |-> <<>>]]
    /\ pc = "idle" /\ run = 0 /\ feedIdx = 0 /\ shutdown = FALSE
    /\ entries = <<>> /\ new_articles = <<>> /\ batchIdx = 1
    /\ total_processed = 0 /\ latest_date = 0
    /\ \E item \in StoredItems :
         /\ store = [f \in 1..NumFeeds |-> IF f = 1 THEN item ELSE EmptyItem]
         /\ fOut = [initial |-> item.processed_count, added |-> 0, writes |-> 0]
    /\ InitObs
    /\ fArticle = [date |-> 0, link |-> FALSE, llm |-> ValidRead]
    /\ fResult = [op |-> "none", res |-> Raised]
    /\ fpc = "concurrent"
    /\ fIn = [i \in Instances |-> InstanceIdle]

\* _process_single_feed, lines 143-193, in instance i: the fetch returns some
\* content, the mark is read, the new articles go through the batch loop
InstanceProcess(i) ==
    /\ fpc = "concurrent" /\ fIn[i].pc = "start"
    /\ \E c \in Contents :
         LET fresh == _get_new_articles(c, get_last_pub_date(1, TRUE))
             after == RunBatches(fresh, batch_size, NumBatches(fresh, batch_size))
         IN fIn' = [fIn EXCEPT ![i] =
                      IF after.total_processed > 0 /\ after.latest_date # 0
                      THEN [pc |-> "update", latest_date |-> after.latest_date,
                            total_processed |-> after.total_processed, current_count |-> 0]
                      ELSE [InstanceIdle EXCEPT !.pc = "done"]]
    /\ UNCHANGED <<cfgVars, envVars, pc, run, feedIdx, locVars, obsVars,
                   fpc, fArticle, fResult, fOut>>

\* update_feed_state, lines 127-128, in instance i: the current count is read
InstanceReadCount(i) ==
    /\ fpc = "concurrent" /\ fIn[i].pc = "update"
    /\ fIn' = [fIn EXCEPT ![i].pc = "write",
                          ![i].current_count = get_feed_state(1, TRUE).processed_count]
    /\ UNCHANGED <<cfgVars, envVars, pc, run, feedIdx, locVars, obsVars,
                   fpc, fArticle, fResult, fOut>>

\* update_feed_state, lines 131-139, in instance i: update_item
InstanceWrite(i) ==
    /\ fpc = "concurrent" /\ fIn[i].pc = "write"
    /\ store' = [store EXCEPT ![1] =
                   update_item(store[1], fIn[i].latest_date, fOut.writes + 1,
                               fIn[i].current_count + fIn[i].total_processed)]
    /\ fOut' = [fOut EXCEPT !.added = fOut.added + fIn[i].total_processed,
                            !.writes = fOut.writes + 1]
    /\ fIn' = [fIn EXCEPT ![i].pc = "done"]
    /\ UNCHANGED <<cfgVars, upstream, shutdown, pc, run, feedIdx, locVars, obsVars,
                   fpc, fArticle, fResult>>

NextConcurrent ==
    \E i \in Instances : InstanceProcess(i) \/ InstanceReadCount(i) \/ InstanceWrite(i)

SpecConcurrent == InitConcurrent /\ [][NextConcurrent]_vars

\* ================================================================ properties
\* the feed last entered, and what its state write (if any) left in the table
Cur == feeds[feedIdx]
FeedEnded == pc \in {"loop", "idle"} /\ feedIdx >= 1 /\ run >= 1
Wrote == store[Cur] # pre
\* the article is selected as new by a run that fetches the same entries and
\* reads the mark now stored
NewNextRun(a) == a \in Range(_get_new_articles(entries, store[Cur].last_pub_date))
\* the articles of the batches the loop never reached
Unreached == SubSeq(new_articles, cancelledAt * batch_size + 1, Len(new_articles))

\* C1: whenever _process_single_feed persists feed state, the last_pub_date it
\* writes is the maximum normalized_date among the articles whose bookmark was
\* created in that run.
C1_MarkIsMaxFiled ==
    (FeedEnded /\ status = "done" /\ Wrote) => store[Cur].last_pub_date = sentMax

\* C2: if cancellation is seen after batch k was filed, the persisted mark is at
\* most the maximum date filed in batches 1..k, and every article of the
\* batches k+1.. is selected as new again by the next run over the same entries.
C2_CancelLosesNothing ==
    (FeedEnded /\ status = "done" /\ cancelledAt >= 1 /\ log[cancelledAt].items > 0)
    => /\ store[Cur].last_pub_date <= sentMax
       /\ \A i \in DOMAIN Unreached : NewNextRun(Unreached[i])

\* C3: the last_pub_date stored for a feed never decreases from one state write
\* to the next.
C3_MarkNeverDecreases ==
    [][\A f \in DOMAIN store : store'[f].last_pub_date >= store[f].last_pub_date]_vars

AllSkip(arts) ==
    \A i \in DOMAIN arts :
        LET r == analyze_article(arts[i], client) IN ~r.raised /\ r.collection = "skip"

LatestBefore(k) == IF k = 1 THEN 0 ELSE log[k - 1].latest

C6_NothingFiledNothingWritten ==
    (FeedEnded /\ sent = 0) => store[Cur] = pre

\* the classifier outcomes C7 lists: the call raises, the text is not JSON, the
\* JSON is not an object, collection or reason is missing or empty, the
\* collection is outside the label set
FailedOutcome(llm) ==
    \/ llm.kind \in {"call_raises", "content_none"}
    \/ /\ llm.kind = "text"
       /\ \/ llm.body \in {"invalid", "non_object"}
          \/ llm.collection \in {NONE, ""}
          \/ llm.reason \in {NONE, ""}
          \/ llm.collection \notin Dispositions

\* C7: for every failed outcome of the classifier call, _analyze_content does
\* not raise and returns maybe with a non-empty reason.
C7_ClassifierFallback ==
    (fpc = "done" /\ fResult.op = "_analyze_content" /\ FailedOutcome(fArticle.llm))
    => /\ ~fResult.res.raised
       /\ fResult.res.collection = "maybe"
       /\ fResult.res.reason \notin {NONE, ""}

C7_Witness ==
    /\ fpc = "done" /\ fResult.op = "_analyze_content"
    /\ fArticle.llm.kind = "text" /\ fArticle.llm.body = "object"
    /\ fArticle.llm.collection = "skip" /\ fArticle.llm.reason = ""
    /\ fResult.res.collection = "maybe"

\* C8: analyze_article applies its rules in order, first match wins: no link
\* gives maybe; else no date gives maybe; else too old gives skip; else the
\* classifier's answer unchanged when a classifier is configured; else maybe
\* with 'No content analysis available'.
C8_RuleOrder ==
    (fpc = "done" /\ fResult.op = "analyze_article")
    => LET a == fArticle
           r == fResult.res
       IN /\ ~a.link => (~r.raised /\ r.collection = "maybe"
                          /\ r.reason = "Missing required link field")
          /\ (a.link /\ a.date = 0)
               => (~r.raised /\ r.collection = "maybe"
                   /\ r.reason = "Could not determine publication date")
          /\ (a.link /\ a.date # 0 /\ Now - a.date > max_age)
               => (~r.raised /\ r.collection = "skip")
          /\ (a.link /\ a.date # 0 /\ Now - a.date <= max_age /\ client)
               => r = _analyze_content(a)
          /\ (a.link /\ a.date # 0 /\ Now - a.date <= max_age /\ ~client)
               => (~r.raised /\ r.collection = "maybe"
                   /\ r.reason = "No content analysis available")

C8_Witness ==
    /\ fpc = "done" /\ fResult.op = "analyze_article"
    /\ ~fArticle.link /\ fArticle.date # 0 /\ Now - fArticle.date > max_age
    /\ fResult.res.collection = "maybe"

\* C9: analyze_article answers skip only for an article that is too old or for
\* a valid classifier response whose collection is skip.
C9_SkipOnlyWhenJustified ==
    (fpc = "done" /\ fResult.op = "analyze_article" /\ fResult.res.collection = "skip")
    => /\ fArticle.link /\ fArticle.date # 0
       /\ \/ Now - fArticle.date > max_age
          \/ /\ client
             /\ fArticle.llm.kind = "text" /\ fArticle.llm.body = "object"
             /\ fArticle.llm.collection = "skip"
             /\ fArticle.llm.reason \notin {NONE, ""}

C9_Witness ==
    /\ fpc = "done" /\ fResult.op = "analyze_article"
    /\ fResult.res.collection = "skip" /\ Now - fArticle.date <= max_age

\* C10: an error raised while one feed is processed does not abort the list:
\* feeds are attempted in list order, and a run that ends without cancellation
\* has attempted every feed.
C10_LaterFeedsAttempted ==
    /\ Len(attempted) <= Len(feeds)
    /\ \A i \in DOMAIN attempted : attempted[i] = feeds[i]
    /\ (pc = "idle" /\ run >= 1 /\ ~shutdown) => attempted = feeds

C10_Witness ==
    /\ pc = "idle" /\ run >= 1 /\ ~shutdown
    /\ feeds[1] \in failedFeeds /\ Len(attempted) = Len(feeds) /\ Len(feeds) >= 2
    /\ status = "done" /\ Wrote

\* the articles of a logged batch that the first loop put in a group whose
\* request was made and did not fail
FiledIdx(e) ==
    {i \in DOMAIN e.arts :
        LET r == analyze_article(e.arts[i], client)
        IN /\ ~r.raised
           /\ ~(r.collection = "skip" /\ ~save_skipped)
           /\ r.collection \notin e.failed}

\* C11: an error raised while one article is classified keeps only that
\* article out of the batch's groups: it is not filed, and every other article
\* of the batch is classified, grouped and filed (counted when its group's call
\* returns, created when it also has a link).
C11_ErrorExcludesOneArticle ==
    \A k \in DOMAIN log :
        LET e == log[k] IN
        /\ \A i \in DOMAIN e.arts :
              analyze_article(e.arts[i], client).raised => e.arts[i] \notin Range(e.created)
        /\ e.count = Cardinality(FiledIdx(e))
        /\ Len(e.created) = Cardinality({i \in FiledIdx(e) : e.arts[i].link})
        /\ \A i \in FiledIdx(e) : e.arts[i].link => e.arts[i] \in Range(e.created)

C11_Witness ==
    \E k \in DOMAIN log :
        LET e == log[k] IN
        /\ Len(e.arts) = 2 /\ e.failed = {}
        /\ analyze_article(e.arts[1], client).raised
        /\ ~analyze_article(e.arts[2], client).raised
        /\ e.created = <<e.arts[2]>> /\ e.count = 1

\* C12: the callback is polled before each feed and before each batch: once
\* it returns true no further feed is entered and no further batch is
\* classified or filed, while the batch during which the signal arrived is
\* classified and filed in full.
C12_CancelStopsNewWork ==
    [][/\ shutdown => /\ attempted' = attempted /\ feedIdx' = feedIdx
                      /\ log' = log /\ sent' = sent /\ batchIdx' = batchIdx
       /\ (~shutdown /\ shutdown' /\ log' # log)
            => LET e == log'[Len(log')] IN
               /\ Len(log') = Len(log) + 1
               /\ e.arts = _batch_articles(new_articles, batch_size, batchIdx)
               /\ e.count = Cardinality(FiledIdx(e))
               /\ Len(e.created) = Cardinality({i \in FiledIdx(e) : e.arts[i].link})
               /\ sent' = sent + Len(e.created)]_vars

\* cancelled by the end of the first batch of the first feed, which filed its
\* articles; the second batch and the second feed were never started
C12_Witness ==
    /\ pc = "idle" /\ run >= 1 /\ shutdown
    /\ Len(attempted) = 1 /\ Len(feeds) >= 2
    /\ Len(log) = 1 /\ batchIdx = 2 /\ batchIdx <= NumBatches(new_articles, batch_size)
    /\ sent = Len(log[1].arts) /\ sent >= 1

\* the mark the last feed entered was diffed against
MarkUsed == IF readOk THEN pre.last_pub_date ELSE 0
Occurrences(seq, x) == Cardinality({i \in DOMAIN seq : seq[i] = x})

\* C13: _get_new_articles returns exactly the entries with a resolvable date
\* strictly greater than the stored mark (every dated entry when there is no
\* mark), newest first; an entry dated at the mark and an entry without a date
\* are never returned.
C13_NewArticlesExact ==
    (feedIdx >= 1 /\ run >= 1 /\ status \in {"running", "done", "no_new", "failed"})
    => /\ \A e \in Range(entries) \cup Range(new_articles) :
            Occurrences(new_articles, e)
              = IF e.date # 0 /\ (MarkUsed = 0 \/ e.date > MarkUsed)
                THEN Occurrences(entries, e) ELSE 0
       /\ \A i, j \in DOMAIN new_articles :
            i < j => new_articles[i].date >= new_articles[j].date

\* a stored mark, an entry dated at the mark left out and a later one returned
C13_Witness ==
    /\ feedIdx >= 1 /\ run = 2 /\ status = "running" /\ readOk
    /\ MarkUsed # 0
    /\ \E i \in DOMAIN entries : entries[i].date = MarkUsed
    /\ new_articles # <<>>
    /\ \A i \in DOMAIN new_articles : new_articles[i].date > MarkUsed

\* C14: _batch_articles cuts the list into contiguous batches in list order:
\* every batch but the last has batch_size articles, the last has between 1
\* and batch_size, none is empty, and the batches concatenated give the list
\* (12 articles with batch size 5 give batches of 5, 5 and 2).
C14_BatchesPartitionList ==
    (fpc = "done" /\ fIn.op = "_batch_articles")
    => LET k == Len(fOut) IN
       /\ \A i \in 1..k :
            /\ Len(fOut[i]) >= 1 /\ Len(fOut[i]) <= fIn.size
            /\ i < k => Len(fOut[i]) = fIn.size
       /\ Concat(fOut, k) = Positions(fIn.n)
       /\ (fIn.n = 12 /\ fIn.size = 5)
            => [i \in 1..k |-> Len(fOut[i])] = <<5, 5, 2>>

C14_Witness ==
    /\ fpc = "done" /\ fIn.op = "_batch_articles"
    /\ fIn.n = 12 /\ fIn.size = 5
    /\ Len(fOut) = 3 /\ fOut[3] = <<11, 12>>

\* C15: the max-age boundary is exclusive: an article whose age equals
\* max_age is not too old, an article is too old exactly when its age is
\* strictly greater, and max_age is max_age_years times 365 days.
C15_MaxAgeExclusive ==
    (fpc = "done" /\ fIn.op = "_is_too_old")
    => LET age == fIn.now - fIn.pub_date IN
       /\ fOut = (age > fIn.max_age_years * 365)
       /\ age = fIn.max_age_years * 365 => ~fOut

\* an article exactly MaxYears * 365 days old is kept
C15_Witness ==
    /\ fpc = "done" /\ fIn.op = "_is_too_old"
    /\ fIn.max_age_years = MaxYears
    /\ fIn.now - fIn.pub_date = fIn.max_age_years * 365
    /\ fOut = FALSE

\* a field value that some parser accepts
Parses(value) == value.kind \in {"rfc2822", "iso"}

\* C16: get_article_date takes the first date found in a fixed order: the
\* published_parsed tuple when present and convertible, then the string fields
\* published, pubDate, created, createDate, updated; the tuple wins over a
\* conflicting pubDate, a field that does not parse is passed over without an
\* exception, and the result is None only when no field yields a date.
C16_DateResolutionOrder ==
    (fpc = "done" /\ fIn.op = "get_article_date")
    => LET e == fIn.entry
           order == <<"published", "pubDate", "created", "createDate", "updated">>
           tuple == e.published_parsed.kind = "struct_time"
       IN /\ fOut.kind \in {"datetime", "none"}
          /\ tuple => (fOut.kind = "datetime" /\ fOut.t = e.published_parsed.t)
          /\ \A n \in 1..5 :
               (~tuple /\ Parses(e[order[n]]) /\ \A m \in 1..(n - 1) : ~Parses(e[order[m]]))
               => (fOut.kind = "datetime" /\ fOut.t = e[order[n]].t)
          /\ (fOut.kind = "none") <=> (~tuple /\ \A n \in 1..5 : ~Parses(e[order[n]]))

\* a convertible tuple and a pubDate holding another date: the tuple's date
C16_Witness ==
    /\ fpc = "done" /\ fIn.op = "get_article_date"
    /\ fIn.entry.published_parsed.kind = "struct_time"
    /\ Parses(fIn.entry.pubDate)
    /\ fIn.entry.pubDate.t # fIn.entry.published_parsed.t
    /\ fOut.kind = "datetime" /\ fOut.t = fIn.entry.published_parsed.t

\* C17: every date get_article_date returns is timezone-aware (a naive result
\* is given UTC), and the comparisons of an article date with the stored mark
\* and with the current time have aware values on both sides, also when the
\* mark was stored without a zone.
C17_DatesAreAware ==
    /\ (fpc = "done" /\ fIn.op = "get_article_date" /\ fOut.kind = "datetime") => fOut.tz
    /\ (fpc = "compared" /\ fIn.op = "get_article_date")
         => /\ fOut.date.tz
            /\ fOut.mark.kind = "datetime" => fOut.mark.tz
            /\ fOut.newer # "TypeError" /\ fOut.too_old # "TypeError"
            /\ (fOut.stored.kind = "iso") <=> (fOut.newer # "not compared")

\* a date parsed from a string without a zone, compared with a mark stored
\* without a zone
C17_Witness ==
    /\ fpc = "compared" /\ fIn.op = "get_article_date"
    /\ fIn.entry.published_parsed.kind = "absent"
    /\ Parses(fIn.entry.published) /\ ~fIn.entry.published.tz
    /\ fOut.stored.kind = "iso" /\ ~fOut.stored.tz
    /\ fOut.newer = "True" /\ fOut.too_old = "False"

\* C18: for a feed never seen, a failed read of the state record or a stored
\* last_pub_date that does not parse, get_last_pub_date raises nothing and
\* returns None, and every dated entry of the feed is then selected as new.
C18_MarkReadNeverRaises ==
    (/\ fpc = "done" /\ fIn.op = "get_last_pub_date"
     /\ (fIn.read # "item" \/ fIn.stored.kind \in {"absent", "garbage"}))
    => /\ fOut.last_pub_date = NoDate
       /\ \A e \in Range(fIn.entries) \cup Range(fOut.new_articles) :
            Occurrences(fOut.new_articles, e)
              = IF e.date # 0 THEN Occurrences(fIn.entries, e) ELSE 0

\* C19: update_feed_state is atomic for one feed: whenever a feed's record
\* changes, the record a reader finds holds all three attributes of that one
\* update (its last_pub_date, its last_processed and its processed_count),
\* never some of them next to older values.
C19_UpdateIsAtomic ==
    [][\A f \in DOMAIN store :
         store'[f] # store[f]
         => /\ store'[f].last_pub_date = latest_date
            /\ store'[f].last_processed = run
            /\ store'[f].processed_count
                 \in {store[f].processed_count + total_processed, total_processed}]_vars

\* the second run replaced all three attributes the first run had stored
C19_Witness ==
    /\ run = 2 /\ FeedEnded /\ status = "done"
    /\ pre.last_processed = 1 /\ store[Cur].last_processed = 2
    /\ store[Cur].last_pub_date # pre.last_pub_date
    /\ store[Cur].processed_count > pre.processed_count

\* C20: within one run a feed's record is written at most once, and only
\* once the feed's batch loop is over (every batch consumed or cancellation
\* seen), never between two batches of the feed.
C20_OneWriteAfterLoop ==
    [][\A f \in DOMAIN store :
         store'[f] # store[f]
         => /\ feedIdx >= 1 /\ f = feeds[feedIdx]
            /\ pc = "batch" /\ pc' # "batch"
            /\ shutdown \/ batchIdx > NumBatches(new_articles, batch_size)
            /\ store[f] = pre]_vars

\* two batches were processed and the record was written after the second
C20_Witness ==
    /\ FeedEnded /\ status = "done" /\ Wrote
    /\ Len(log) = 2 /\ log[1].count > 0 /\ log[2].count > 0
    /\ store[Cur].processed_count = pre.processed_count + total_processed

\* the articles of a batch that analyze_article assigned to a disposition
Assigned(arts, c) ==
    SelectSeq(arts, LAMBDA a :
        ~analyze_article(a, client).raised /\ analyze_article(a, client).collection = c)

\* C21: per batch, the articles classified without error are grouped by
\* disposition and each non-empty group is filed with exactly one
\* add_bookmarks call to the collection id configured for the disposition; with
\* save_skipped false the skip group is not sent and its articles are not
\* counted; no article is filed to the collection of another disposition.
C21_OneCallPerGroup ==
    (fpc = "done" /\ fIn.op = "_process_article_batch")
    => LET arts == fIn.articles
           calls == fOut.calls
       IN /\ \A c \in Dispositions :
               LET to == {k \in DOMAIN calls : calls[k].collection_id = collections[c]} IN
               IF Assigned(arts, c) # <<>> /\ ~(c = "skip" /\ ~save_skipped)
               THEN /\ Cardinality(to) = 1
                    /\ \A k \in to : calls[k].articles = Assigned(arts, c)
               ELSE to = {}
          /\ \A k \in DOMAIN calls : \A j \in DOMAIN calls[k].items :
               LET item == calls[k].items[j] IN
               /\ item.collection = calls[k].collection_id
               /\ item.collection = collections[analyze_article(item.article, client).collection]
          /\ fOut.processed_count
               = Cardinality({<<k, i>> \in (DOMAIN calls) \X (DOMAIN arts) :
                                ~calls[k].raised /\ i \in DOMAIN calls[k].articles})

\* save_skipped false, a batch with a skip article and a read article: one
\* call, to the read collection, and one article counted
C21_Witness ==
    /\ fpc = "done" /\ fIn.op = "_process_article_batch" /\ ~save_skipped
    /\ Assigned(fIn.articles, "skip") # <<>> /\ Assigned(fIn.articles, "read") # <<>>
    /\ Len(fOut.calls) = 1 /\ fOut.calls[1].collection_id = collections["read"]
    /\ ~fOut.calls[1].raised /\ fOut.processed_count = 1

\* C22: every item sent to the store carries as its excerpt the reason
\* produced for that article: articles and reasons stay aligned through the
\* grouping and through add_bookmarks, also when an article of the group is
\* left out of the request for want of a link.
C22_ExcerptIsOwnReason ==
    (fpc = "done" /\ fIn.op = "_process_article_batch")
    => \A k \in DOMAIN fOut.calls :
          LET call == fOut.calls[k] IN
          /\ [j \in DOMAIN call.items |-> call.items[j].article]
               = SelectSeq(call.articles, LAMBDA a : a.link)
          /\ \A j \in DOMAIN call.items :
               /\ call.items[j].excerpt = analyze_article(call.items[j].article, client).reason
               /\ call.items[j].excerpt \notin {NONE, ""}

\* a group whose first article has no link and whose second has one, with
\* different reasons: the one item sent carries the second article's reason
C22_Witness ==
    /\ fpc = "done" /\ fIn.op = "_process_article_batch"
    /\ \E k \in DOMAIN fOut.calls :
         LET call == fOut.calls[k] IN
         /\ Len(call.articles) = 2 /\ ~call.articles[1].link /\ call.articles[2].link
         /\ Len(call.items) = 1
         /\ call.items[1].excerpt = analyze_article(call.articles[2], client).reason
         /\ call.items[1].excerpt # analyze_article(call.articles[1], client).reason

\* C23: a failed creation call for one disposition group does not end the
\* run: the other groups of the batch are filed, the remaining batches of the
\* feed and the remaining feeds are processed, and the articles of the failed
\* group are not counted as filed.
C23_FailedCallContained ==
    /\ \A k \in DOMAIN log :
          LET e == log[k] IN
          /\ e.count = Cardinality(FiledIdx(e))
          /\ \A i \in FiledIdx(e) : e.arts[i].link => e.arts[i] \in Range(e.created)
    /\ (feedIdx >= 1 /\ status = "running" /\ log # <<>> /\ ~shutdown
         /\ Len(log) < NumBatches(new_articles, batch_size))
         => (pc = "batch" /\ ENABLED ProcessBatch)
    /\ (FeedEnded /\ status = "done" /\ cancelledAt = -1)
         => Len(log) = NumBatches(new_articles, batch_size)
    /\ (pc = "idle" /\ run >= 1 /\ ~shutdown) => attempted = feeds

\* a creation call failed in the first feed, which still created items; the
\* run went on to the second feed and filed its articles
C23_Witness ==
    /\ pc = "idle" /\ run >= 1 /\ ~shutdown /\ feedIdx = 2
    /\ failedFeeds = {} /\ run \in faultRuns
    /\ status = "done" /\ \A k \in DOMAIN log : log[k].failed = {}
    /\ sent > 0 /\ runSent > sent

\* C24: a configuration that lacks the store token, the collection id of a
\* disposition the run files under, or a non-empty feed list makes the entry
\* point end with its failure signal and fetch no feed.
RequiredIds == IF save_skipped THEN Dispositions ELSE Dispositions \ {"skip"}
LacksRequiredSetting(config) ==
    \/ "token" \notin config.keys \/ config.token = ""
    \/ "collections" \notin config.keys \/ ~(RequiredIds \subseteq config.collections)
    \/ "feeds" \notin config.keys \/ config.feeds = 0
C24_ConfigFailureAborts ==
    (fpc = "done" /\ fIn.op \in {"main", "lambda_handler"} /\ LacksRequiredSetting(fIn.config))
        => (fOut.failed /\ fOut.fetched = 0)

\* C25: process_feeds terminates, and every feed it starts ends in exactly one
\* outcome that no later step of the feed changes: done when the batch loop
\* ended, skipped when the feed had no entries or no new articles, or failed.
FinalOutcomes == {"done", "skipped_empty", "no_new", "failed", "fetch_failed"}
C25_RunTerminates ==
    /\ <>[](pc = "idle" /\ run = runs)
    /\ []((pc \in {"loop", "idle"} /\ feedIdx >= 1) => status \in FinalOutcomes)
    /\ [](status = "skipped_empty" => entries = <<>>)
    /\ [](status = "no_new" => (entries # <<>> /\ new_articles = <<>>))
    /\ [](status = "done" => (new_articles # <<>>
                               /\ (cancelledAt = -1 => Len(log) = NumBatches(new_articles, batch_size))))
    /\ [][(status \in FinalOutcomes /\ feedIdx' = feedIdx /\ run' = run)
            => status' = status]_vars

C25_Witness ==
    /\ pc = "idle" /\ run = runs /\ Len(attempted) = Len(feeds) /\ Len(feeds) >= 2
    /\ feeds[1] \in failedFeeds /\ status = "done" /\ Len(log) >= 2

\* C26: in a run started without a cancellation callback, a feed that had new
\* articles and has left its batch loop had every batch processed, and did
\* not fail in the loop.
C26_NoCallbackNeverCancelled ==
    (~hasCallback /\ feedIdx >= 1 /\ new_articles # <<>> /\ pc \in {"loop", "idle"})
        => (Len(log) = NumBatches(new_articles, batch_size) /\ cancelledAt = -1)

\* the articles of a logged batch that were not filed because their
\* classification raised or their group's creation call failed
UnfiledByError(e) ==
    {i \in DOMAIN e.arts :
        LET r == analyze_article(e.arts[i], client)
        IN r.raised \/ r.collection \in e.failed}

\* C27: after a run that persisted a mark, every article the run selected as
\* new and did not file because its classification raised or its group's
\* creation call failed is strictly newer than that mark, and the next run
\* over the same content selects it again.
C27_UnfiledSelectedAgain ==
    (FeedEnded /\ status = "done" /\ Wrote)
    => \A k \in DOMAIN log : \A i \in UnfiledByError(log[k]) :
          /\ log[k].arts[i].date > store[Cur].last_pub_date
          /\ NewNextRun(log[k].arts[i])

\* C28: while instances of the pipeline overlap on one feed, no write to the
\* state table lowers the feed's stored last_pub_date.
C28_ConcurrentMarkNeverDecreases ==
    [][fpc = "concurrent" => store'[1].last_pub_date >= store[1].last_pub_date]_vars

\* C29: whenever no update_feed_state call is between its read and its write,
\* the stored processed_count is the value before the calls plus the counts of
\* the calls made.
C29_CountIsCumulative ==
    (fpc = "concurrent" /\ \A i \in Instances : fIn[i].pc # "write")
        => store[1].processed_count = fOut.initial + fOut.added

\* C30: a feed whose state read failed while a mark was stored, and whose run
\* then wrote state, has a stored last_pub_date not below the mark that was
\* stored when the feed was entered.
C30_FallbackRunKeepsMark ==
    (FeedEnded /\ status = "done" /\ ~readOk /\ pre.last_pub_date # 0 /\ Wrote)
        => store[Cur].last_pub_date >= pre.last_pub_date

\* C31: the processed count a feed's run hands to update_feed_state is the
\* number of items its successful creation requests carried: an article left
\* out of a request, or grouped in a call that sent no request, is not counted.
C31_CountIsItemsSent ==
    (FeedEnded /\ status = "done" /\ Wrote) => total_processed = sent

\* the state write of the feed last entered raised after the feed had created
\* bookmarks
WriteFailedAfterFiling == FeedEnded /\ status = "failed" /\ log # <<>> /\ sent > 0
\* every article the feed created a bookmark for is selected again
FiledSelectedAgain ==
    \A k \in DOMAIN log : \A i \in DOMAIN log[k].created : NewNextRun(log[k].created[i])

====
